---- MODULE Spec2Model ----
(***************************************************************************)
(* Model of controllers/aggregated_clusteroperator_controller.go: the      *)
(* AggregatedClusterOperatorReconciler, which folds the conditions of all  *)
(* PlatformOperators into the status of one aggregated ClusterOperator.    *)
(*                                                                         *)
(* A PlatformOperator (member) is a record [name, conditions]; the code    *)
(* reads only the Reason of a condition, so a condition is its reason.     *)
(* A condition of the ClusterOperator status is [status, message, reason]. *)
(* Strings are TLA+ strings, built with \o the way the code formats them.  *)
(***************************************************************************)
EXTENDS Integers, Sequences, FiniteSets, TLC

\* ------------------------------------------------------------------ bounds
\* Longest condition sequence of a member.
MaxConds == 2

\* Changes the rest of the cluster makes to the PlatformOperators in one run.
MaxMemberChanges == 2

\* Names of the PlatformOperators that can exist (cluster-scoped, so unique).
Names == {"a", "b"}

\* ------------------------------------------------- vocabulary of the program
ReasonSourceFailed == "SourceFailed"
ReasonApplyFailed == "ApplyFailed"
ReasonInstallSuccessful == "InstallSuccessful"

Reasons == {ReasonSourceFailed, ReasonApplyFailed, ReasonInstallSuccessful}

ConditionTrue == "True"
ConditionFalse == "False"

CondSeqs == UNION {[1..n -> Reasons] : n \in 0..MaxConds}

Members == [name : Names, conditions : CondSeqs]

\* Every listing of members with distinct names, in any order.
MemberLists ==
    {<<>>} \cup {<<m>> : m \in Members}
           \cup {p \in Members \X Members : p[1].name # p[2].name}

\* The reconcile workers. controller-runtime runs one worker per controller by
\* default; the second worker exists for overlapping invocations.
Workers == {"w1", "w2"}
SeqWorkers == {"w1"}

\* --------------------------------------------------- aggregatedco.Builder
Cond(status, message, reason) ==
    [status |-> status, message |-> message, reason |-> reason]

\* A condition slot nothing was written to.
NoCondition == Cond("", "", "")

NewBuilder ==
    [progressing |-> NoCondition, degraded |-> NoCondition, available |-> NoCondition]

WithProgressing(b, status, message) ==
    [b EXCEPT !.progressing = Cond(status, message, "")]

WithDegraded(b, status) ==
    [b EXCEPT !.degraded = Cond(status, "", "")]

WithAvailable(b, status, message, reason) ==
    [b EXCEPT !.available = Cond(status, message, reason)]

GetStatus(b) == b

\* ---------------------------------------------- inspectPlatformOperators
IsFailureReason(reason) ==
    reason = ReasonSourceFailed \/ reason = ReasonApplyFailed

\* fmt.Sprintf("%s is failing: %q", po.GetName(), condition.Reason)
FailingMessage(name, reason) ==
    name \o " is failing: " \o "\"" \o reason \o "\""

EmptyReport == [isNil |-> FALSE, FailingPOs |-> <<>>, FailingErrors |-> <<>>]
NilReport == [isNil |-> TRUE, FailingPOs |-> <<>>, FailingErrors |-> <<>>]

\* Variant: a member is appended to FailingPOs for its first failing
\* condition only.
ScanConditionOncePerPO(po, reason, acc) ==
    IF reason = "SourceFailed" \/ reason = "ApplyFailed"
    THEN [acc EXCEPT !.FailingPOs =
                         IF \E k \in 1..Len(@) : @[k] = po THEN @ ELSE Append(@, po),
                     !.FailingErrors =
                         Append(@, po.name \o " is failing: " \o "\"" \o reason \o "\"")]
    ELSE acc

\* Variant: new entries are put in front of the lists instead of appended.
ScanConditionPrepends(po, reason, acc) ==
    IF reason = "SourceFailed" \/ reason = "ApplyFailed"
    THEN [acc EXCEPT !.FailingPOs = <<po>> \o @,
                     !.FailingErrors =
                         <<po.name \o " is failing: " \o "\"" \o reason \o "\"">> \o @]
    ELSE acc

\* Variant: the message is appended outside the check of the reason, for
\* every condition.
ScanConditionMessageAlways(po, reason, acc) ==
    [acc EXCEPT !.FailingPOs =
                    IF reason = "SourceFailed" \/ reason = "ApplyFailed"
                    THEN Append(@, po) ELSE @,
                !.FailingErrors =
                    Append(@, po.name \o " is failing: " \o "\"" \o reason \o "\"")]

\* One pass of the inner loop body for condition i of member po.
ScanCondition(po, reason, acc) ==
    IF IsFailureReason(reason)
    THEN [acc EXCEPT !.FailingPOs = Append(@, po),
                     !.FailingErrors = Append(@, FailingMessage(po.name, reason))]
    ELSE acc

RECURSIVE ScanConditions(_, _, _)
ScanConditions(po, i, acc) ==
    IF i > Len(po.conditions) THEN acc
    ELSE ScanConditions(po, i + 1, ScanCondition(po, po.conditions[i], acc))

RECURSIVE ScanItems(_, _, _)
ScanItems(items, i, acc) ==
    IF i > Len(items) THEN acc
    ELSE ScanItems(items, i + 1, ScanConditions(items[i], 1, acc))

\* Variant: the report is returned whether or not anything was appended.
ReportAlways(POstatuses) == POstatuses

ReportOrNil(POstatuses) ==
    IF Len(POstatuses.FailingPOs) > 0 \/ Len(POstatuses.FailingErrors) > 0
    THEN POstatuses
    ELSE NilReport

inspectPlatformOperators(POList) ==
    ReportOrNil(ScanItems(POList, 1, EmptyReport))

\* ------------------------------ utilerror.NewAggregate(errs).Error()
\* k8s.io/apimachinery/pkg/util/errors: one error prints as itself; several
\* print as "[m1, m2]" with repeated messages printed once.
RECURSIVE Dedup(_, _, _)
Dedup(errs, i, acc) ==
    IF i > Len(errs) THEN acc
    ELSE Dedup(errs, i + 1,
               IF \E k \in 1..Len(acc) : acc[k] = errs[i] THEN acc
               ELSE Append(acc, errs[i]))

RECURSIVE JoinFrom(_, _)
JoinFrom(msgs, i) ==
    IF i > Len(msgs) THEN ""
    ELSE (IF i > 1 THEN ", " ELSE "") \o msgs[i] \o JoinFrom(msgs, i + 1)

\* Variant: only the first error is printed.
AggregateErrorFirstOnly(errs) == IF Len(errs) = 0 THEN "" ELSE errs[1]

AggregateError(errs) ==
    IF Len(errs) = 0 THEN ""
    ELSE IF Len(errs) = 1 THEN errs[1]
    ELSE LET seen == Dedup(errs, 1, <<>>)
         IN IF Len(seen) = 1 THEN seen[1] ELSE "[" \o JoinFrom(seen, 1) \o "]"

\* ------------------------------------------------- the steps of Reconcile
\* Variant: the defaults leave Progressing out.
DefaultStatusNoProgressing(b) ==
    WithAvailable(WithDegraded(b, ConditionFalse), ConditionFalse, "", "")

\* Variant: the defaults are not set before List.
DefaultStatusMissing(b) == b

\* lines 80-82
DefaultStatus(b) ==
    WithAvailable(
        WithDegraded(WithProgressing(b, ConditionTrue, ""), ConditionFalse),
        ConditionFalse, "", "")

\* Variant: the empty-fleet path returns without setting Available.
EmptyFleetStatusUnset(b) == b

\* line 92
EmptyFleetStatus(b) == WithAvailable(b, ConditionTrue, "", "No POs Found")

\* Variant: the failing verdict forgets WithDegraded(ConditionTrue).
FailingStatusNotDegraded(b, report) ==
    WithAvailable(b, ConditionFalse,
                  AggregateError(report.FailingErrors), "PO In An Error State")

\* lines 100-101
FailingStatus(b, report) ==
    WithAvailable(WithDegraded(b, ConditionTrue), ConditionFalse,
                  AggregateError(report.FailingErrors), "PO In An Error State")

\* Variant: the healthy verdict passes ConditionFalse to WithAvailable.
HealthyStatusUnavailable(b) ==
    WithAvailable(b, ConditionFalse, "All POs in a successful state", "POs Are Healthy")

\* line 105
HealthyStatus(b) ==
    WithAvailable(b, ConditionTrue, "All POs in a successful state", "POs Are Healthy")

\* line 70: err == nil
GetSucceeded(getOutcome) == getOutcome = "ok"

\* Variant: UpdateStatus is given a fresh, empty ClusterOperator instead of
\* the one Get filled in.
FetchedStatusEmpty(stored) == NewBuilder

\* lines 69-70: Get fills aggregatedCO with the object the store holds.
FetchedStatus(stored) == stored

\* Variant: the status is written at the end of the body instead of deferred,
\* so the return on a List error leaves without it.
BodyExitSkipsOnError(listOk) == IF listOk THEN "deferred" ELSE "done"

\* lines 73-77: registered before the body, the deferred call runs after
\* every return of the body, whether List succeeded or not.
BodyExit(listOk) == "deferred"

\* Variant: the error of a failed status update becomes Reconcile's error.
ErrFromUpdateStatus(err, writeOk) == IF writeOk THEN err ELSE "UpdateErr"

\* lines 74-76: the error of UpdateStatus is logged; the value Reconcile
\* returns was fixed by the return statement and is not touched.
ErrAfterUpdateStatus(err, writeOk) == err

\* Variant: a failing member is returned as an error of the invocation.
VerdictErrFromReport(report) == IF report.isNil THEN "nil" ELSE "AggregateErr"

\* lines 93, 102, 107: every return after a successful List returns nil.
VerdictErr(report) == "nil"

\* Variant: the conditions of the listed items are cleared while they are
\* inspected.
ItemsAfterInspectCleared(items) ==
    [i \in 1..Len(items) |-> [items[i] EXCEPT !.conditions = <<>>]]

\* lines 131-133: the loop reads a DeepCopy of each item and assigns to
\* none; the items of the list are what List returned.
ItemsAfterInspect(items) == items

\* Variant: a not-found error is returned like any other error.
IgnoreNotFoundMissing(getOutcome) == "GetErr"

\* client.IgnoreNotFound(err)
IgnoreNotFound(getOutcome) == IF getOutcome = "notfound" THEN "nil" ELSE "GetErr"

\* Writer.UpdateStatus writes only when the target's status differs.
NeedsWrite(existing, desired) == existing # desired

VARIABLES
    members,          \* the PlatformOperators in the store, in listing order
    persisted,        \* the status of the aggregated ClusterOperator in the store
    pc,               \* per worker: where its Reconcile invocation stands
    getResult,        \* per worker: how Get ended ("none" before it)
    fetched,          \* per worker: Get returned the target
    startChanges,     \* per worker: memberChanges when the invocation began
    aggregatedCO,     \* per worker: the status of the target as fetched by Get
    coBuilder,        \* per worker: the builder's condition slots
    listed,           \* per worker: List returned a list
    poList,           \* per worker: the items List returned
    inspected,        \* per worker: inspectPlatformOperators was called
    statusErrorCheck, \* per worker: what inspectPlatformOperators returned
    retErr,           \* per worker: the error Reconcile returns ("none" until it returns)
    updateCalls,      \* per worker: calls of UpdateStatus in this invocation
    handed,           \* per worker: the status handed to UpdateStatus
    storeWrites,      \* per worker: status updates this invocation sent to the store
    writeFailed,      \* per worker: the status update failed and was logged
    prev,             \* summary of the last completed invocation
    memberChanges,    \* number of changes made to the members so far
    inspectInput,     \* argument of a stand-alone call of inspectPlatformOperators
    inspectCalled,    \* the stand-alone call was made
    inspectOutput     \* its return value

workerVars == <<pc, getResult, fetched, startChanges, aggregatedCO, coBuilder, listed, poList, inspected,
                statusErrorCheck, retErr, updateCalls, handed, storeWrites, writeFailed>>
inspectVars == <<inspectInput, inspectCalled, inspectOutput>>
vars == <<members, persisted, workerVars, prev, memberChanges, inspectVars>>

NoPrev == [valid |-> FALSE, startChanges |-> 0, fetched |-> FALSE, listed |-> FALSE,
           storeWrites |-> 0, writeFailed |-> FALSE]

WorkerInit ==
    /\ pc = [w \in Workers |-> "idle"]
    /\ getResult = [w \in Workers |-> "none"]
    /\ fetched = [w \in Workers |-> FALSE]
    /\ startChanges = [w \in Workers |-> 0]
    /\ aggregatedCO = [w \in Workers |-> NewBuilder]
    /\ coBuilder = [w \in Workers |-> NewBuilder]
    /\ listed = [w \in Workers |-> FALSE]
    /\ poList = [w \in Workers |-> <<>>]
    /\ inspected = [w \in Workers |-> FALSE]
    /\ statusErrorCheck = [w \in Workers |-> NilReport]
    /\ retErr = [w \in Workers |-> "none"]
    /\ updateCalls = [w \in Workers |-> 0]
    /\ handed = [w \in Workers |-> NewBuilder]
    /\ storeWrites = [w \in Workers |-> 0]
    /\ writeFailed = [w \in Workers |-> FALSE]
    /\ prev = NoPrev
    /\ memberChanges = 0

\* The cluster holds any set of PlatformOperators when the controller starts;
\* the aggregated ClusterOperator has no status yet.
Init ==
    /\ members \in MemberLists
    /\ persisted = NewBuilder
    /\ WorkerInit
    /\ inspectInput = <<>>
    /\ inspectCalled = FALSE
    /\ inspectOutput = NilReport

\* ------------------------------------------------------------ Reconcile
\* lines 59-72: a.Get of the aggregated ClusterOperator. Its outcome is the
\* store's: found, not found, or another error.
Get(w) ==
    /\ pc[w] = "idle"
    /\ startChanges' = [startChanges EXCEPT ![w] = memberChanges]
    /\ coBuilder' = [coBuilder EXCEPT ![w] = NewBuilder]
    /\ \E getOutcome \in {"ok", "notfound", "error"} :
          /\ getResult' = [getResult EXCEPT ![w] = getOutcome]
          /\ IF GetSucceeded(getOutcome)
             THEN /\ fetched' = [fetched EXCEPT ![w] = TRUE]
                  /\ aggregatedCO' =
                        [aggregatedCO EXCEPT ![w] = FetchedStatus(persisted)]
                  /\ pc' = [pc EXCEPT ![w] = "body"]
                  /\ UNCHANGED retErr
             ELSE /\ retErr' = [retErr EXCEPT ![w] = IgnoreNotFound(getOutcome)]
                  /\ pc' = [pc EXCEPT ![w] = "done"]
                  /\ UNCHANGED <<fetched, aggregatedCO>>
    /\ UNCHANGED <<members, persisted, listed, poList, inspected, statusErrorCheck,
                   updateCalls, handed, storeWrites, writeFailed, prev,
                   memberChanges, inspectVars>>

\* Variant: the nil check on the report is inverted.
VerdictStatusInverted(b, items, report) ==
    IF Len(items) = 0 THEN EmptyFleetStatus(b)
    ELSE IF report.isNil THEN FailingStatus(b, report)
    ELSE HealthyStatus(b)

\* lines 90-107: the verdict for a list that was fetched; report is what
\* inspectPlatformOperators returned (it is not called for an empty list).
VerdictStatus(b, items, report) ==
    IF Len(items) = 0 THEN EmptyFleetStatus(b)
    ELSE IF ~report.isNil THEN FailingStatus(b, report)
    ELSE HealthyStatus(b)

\* Variant: the Inspector is called before the empty-list check.
InspectorRunsAlways(items) == TRUE

\* line 90: the Inspector runs only on a non-empty list.
InspectorRuns(items) == Len(items) # 0

\* lines 79-107: the defaults, a.List, and the verdict, up to the return.
Body(w) ==
    /\ pc[w] = "body"
    /\ \E listOk \in BOOLEAN :
          LET b == DefaultStatus(coBuilder[w])
              report == IF InspectorRuns(members)
                        THEN inspectPlatformOperators(members)
                        ELSE statusErrorCheck[w]
          IN
          /\ pc' = [pc EXCEPT ![w] = BodyExit(listOk)]
          /\ IF ~listOk
             THEN /\ coBuilder' = [coBuilder EXCEPT ![w] = b]
                  /\ retErr' = [retErr EXCEPT ![w] = "ListErr"]
                  /\ UNCHANGED <<listed, poList, inspected, statusErrorCheck>>
             ELSE /\ listed' = [listed EXCEPT ![w] = TRUE]
                  /\ poList' = [poList EXCEPT ![w] =
                                    IF InspectorRuns(members)
                                    THEN ItemsAfterInspect(members) ELSE members]
                  /\ inspected' = [inspected EXCEPT ![w] = InspectorRuns(members)]
                  /\ statusErrorCheck' = [statusErrorCheck EXCEPT ![w] = report]
                  /\ coBuilder' =
                        [coBuilder EXCEPT ![w] = VerdictStatus(b, members, report)]
                  /\ retErr' = [retErr EXCEPT ![w] = VerdictErr(report)]
    /\ UNCHANGED <<members, persisted, getResult, fetched, startChanges, aggregatedCO, updateCalls, handed, storeWrites,
                   writeFailed, prev, memberChanges, inspectVars>>

\* lines 73-77: the deferred coWriter.UpdateStatus(aggregatedCO, coBuilder.GetStatus()).
\* A status update sent to the store succeeds or fails; a failure is logged.
Deferred(w) ==
    /\ pc[w] = "deferred"
    /\ updateCalls' = [updateCalls EXCEPT ![w] = @ + 1]
    /\ handed' = [handed EXCEPT ![w] = GetStatus(coBuilder[w])]
    /\ IF NeedsWrite(aggregatedCO[w], GetStatus(coBuilder[w]))
       THEN /\ storeWrites' = [storeWrites EXCEPT ![w] = @ + 1]
            /\ \E writeOk \in BOOLEAN :
                  /\ retErr' = [retErr EXCEPT ![w] = ErrAfterUpdateStatus(@, writeOk)]
                  /\ IF writeOk
                     THEN /\ persisted' = GetStatus(coBuilder[w])
                          /\ UNCHANGED writeFailed
                     ELSE /\ writeFailed' = [writeFailed EXCEPT ![w] = TRUE]
                          /\ UNCHANGED persisted
       ELSE /\ retErr' = [retErr EXCEPT ![w] = ErrAfterUpdateStatus(@, TRUE)]
            /\ UNCHANGED <<storeWrites, persisted, writeFailed>>
    /\ pc' = [pc EXCEPT ![w] = "done"]
    /\ UNCHANGED <<members, getResult, fetched, startChanges, aggregatedCO, coBuilder,
                   listed, poList, inspected, statusErrorCheck, prev, memberChanges,
                   inspectVars>>

\* Reconcile has returned: its locals are gone, the worker takes the next request.
Return(w) ==
    /\ pc[w] = "done"
    /\ prev' = [valid |-> TRUE, startChanges |-> startChanges[w],
                fetched |-> fetched[w], listed |-> listed[w],
                storeWrites |-> storeWrites[w], writeFailed |-> writeFailed[w]]
    /\ pc' = [pc EXCEPT ![w] = "idle"]
    /\ getResult' = [getResult EXCEPT ![w] = "none"]
    /\ fetched' = [fetched EXCEPT ![w] = FALSE]
    /\ startChanges' = [startChanges EXCEPT ![w] = 0]
    /\ aggregatedCO' = [aggregatedCO EXCEPT ![w] = NewBuilder]
    /\ coBuilder' = [coBuilder EXCEPT ![w] = NewBuilder]
    /\ listed' = [listed EXCEPT ![w] = FALSE]
    /\ poList' = [poList EXCEPT ![w] = <<>>]
    /\ inspected' = [inspected EXCEPT ![w] = FALSE]
    /\ statusErrorCheck' = [statusErrorCheck EXCEPT ![w] = NilReport]
    /\ retErr' = [retErr EXCEPT ![w] = "none"]
    /\ updateCalls' = [updateCalls EXCEPT ![w] = 0]
    /\ handed' = [handed EXCEPT ![w] = NewBuilder]
    /\ storeWrites' = [storeWrites EXCEPT ![w] = 0]
    /\ writeFailed' = [writeFailed EXCEPT ![w] = FALSE]
    /\ UNCHANGED <<members, persisted, memberChanges, inspectVars>>

Next == \E w \in SeqWorkers : Get(w) \/ Body(w) \/ Deferred(w) \/ Return(w)

Spec == Init /\ [][Next]_vars

\* ------------------------- the cluster changing the PlatformOperators
\* A PlatformOperator is created without conditions; its own controller sets
\* them later; it can be deleted. None of this is done by the reconciler.
CreatePO(name) ==
    /\ memberChanges < MaxMemberChanges
    /\ \A i \in 1..Len(members) : members[i].name # name
    /\ members' = Append(members, [name |-> name, conditions |-> <<>>])
    /\ memberChanges' = memberChanges + 1
    /\ UNCHANGED <<persisted, workerVars, prev, inspectVars>>

UpdatePOStatus(i, conds) ==
    /\ memberChanges < MaxMemberChanges
    /\ i \in 1..Len(members)
    /\ members[i].conditions # conds
    /\ members' = [members EXCEPT ![i].conditions = conds]
    /\ memberChanges' = memberChanges + 1
    /\ UNCHANGED <<persisted, workerVars, prev, inspectVars>>

DeletePO(i) ==
    /\ memberChanges < MaxMemberChanges
    /\ i \in 1..Len(members)
    /\ members' = SubSeq(members, 1, i - 1) \o SubSeq(members, i + 1, Len(members))
    /\ memberChanges' = memberChanges + 1
    /\ UNCHANGED <<persisted, workerVars, prev, inspectVars>>

EnvInit ==
    /\ members = <<>>
    /\ persisted = NewBuilder
    /\ WorkerInit
    /\ inspectInput = <<>>
    /\ inspectCalled = FALSE
    /\ inspectOutput = NilReport

EnvNext ==
    \/ \E w \in SeqWorkers : Get(w) \/ Body(w) \/ Deferred(w) \/ Return(w)
    \/ \E name \in Names : CreatePO(name)
    \/ \E i \in 1..Cardinality(Names), conds \in CondSeqs : UpdatePOStatus(i, conds)
    \/ \E i \in 1..Cardinality(Names) : DeletePO(i)

EnvSpec == EnvInit /\ [][EnvNext]_vars

\* The cluster as above, with the worker kept going: every step of an
\* invocation is eventually taken and the next request is eventually
\* handled; a Get that is tried again and again eventually returns the
\* target, and a status update that is tried again and again eventually
\* does not fail. Nothing is assumed about List.
LiveFairness ==
    \A w \in SeqWorkers :
        /\ WF_vars(Get(w)) /\ WF_vars(Body(w))
        /\ WF_vars(Deferred(w)) /\ WF_vars(Return(w))
        /\ SF_vars(Get(w) /\ fetched'[w])
        /\ SF_vars(Deferred(w) /\ ~writeFailed'[w])

LiveSpec == EnvInit /\ [][EnvNext]_vars /\ LiveFairness

\* ------------------------------------------- two invocations at once
\* MaxConcurrentReconciles is not set in SetupWithManager, but nothing in
\* Reconcile excludes a second invocation running against the same store
\* (another replica, or a raised worker count). What earlier invocations
\* over the same members can have left in the store: nothing, the defaults
\* (List failed), or the verdict.
EarlierStatuses(items) ==
    {NewBuilder,
     GetStatus(DefaultStatus(NewBuilder)),
     GetStatus(VerdictStatus(DefaultStatus(NewBuilder), items,
                             IF InspectorRuns(items)
                             THEN inspectPlatformOperators(items)
                             ELSE NilReport))}

ConcInit ==
    /\ members \in MemberLists
    /\ persisted \in EarlierStatuses(members)
    /\ WorkerInit
    /\ inspectInput = <<>>
    /\ inspectCalled = FALSE
    /\ inspectOutput = NilReport

\* One invocation per worker, their steps interleaved in any order; each
\* status update is applied by the store in one step.
ConcNext == \E w \in Workers : Get(w) \/ Body(w) \/ Deferred(w)

ConcSpec == ConcInit /\ [][ConcNext]_vars

\* ------------------------------- inspectPlatformOperators on its own
InspectInit ==
    /\ members = <<>>
    /\ persisted = NewBuilder
    /\ WorkerInit
    /\ inspectInput \in MemberLists
    /\ inspectCalled = FALSE
    /\ inspectOutput = NilReport

InspectCall ==
    /\ ~inspectCalled
    /\ inspectCalled' = TRUE
    /\ inspectOutput' = inspectPlatformOperators(inspectInput)
    /\ UNCHANGED <<members, persisted, workerVars, prev, memberChanges, inspectInput>>

InspectNext == InspectCall

InspectSpec == InspectInit /\ [][InspectNext]_vars

\* ===================================================================
\* Properties
\* ===================================================================
FailureVocabulary == {"SourceFailed", "ApplyFailed"}

\* Some condition of some member of the list carries a failure reason.
HasFailing(items) ==
    \E i \in 1..Len(items) : \E k \in 1..Len(items[i].conditions) :
        items[i].conditions[k] \in FailureVocabulary

InitialState ==
    [progressing |-> Cond("True", "", ""), degraded |-> Cond("False", "", ""),
     available |-> Cond("False", "", "")]

\* C1 (as stated): UpdateStatus runs, with the builder's final snapshot, on
\* every exit path of a Reconcile invocation.
C1_WriteOnEveryExit ==
    \A w \in Workers :
        pc[w] = "done" => updateCalls[w] = 1 /\ handed[w] = GetStatus(coBuilder[w])

\* C1 (amended): UpdateStatus runs exactly once, with the builder's final
\* snapshot, on every exit path of an invocation whose Get of the target
\* succeeded: success, early return, or an error of List.
C1_WriteOnEveryExitAfterGet ==
    \A w \in Workers :
        pc[w] = "done" /\ fetched[w] =>
            updateCalls[w] = 1 /\ handed[w] = GetStatus(coBuilder[w])

\* C1 witness: an invocation left on the List error and UpdateStatus ran.
C1_Witness ==
    \E w \in Workers :
        pc[w] = "done" /\ fetched[w] /\ retErr[w] = "ListErr" /\ updateCalls[w] = 1

\* C2: a non-empty list with a failing condition ends with Degraded=True,
\* Available=False, reason "PO In An Error State" and, as message, the
\* aggregate of the report's FailingErrors, handed to UpdateStatus.
C2_FailingVerdict ==
    \A w \in Workers :
        pc[w] = "done" /\ listed[w] /\ Len(poList[w]) > 0 /\ HasFailing(poList[w]) =>
            /\ updateCalls[w] = 1
            /\ handed[w].degraded.status = "True"
            /\ handed[w].available.status = "False"
            /\ handed[w].available.reason = "PO In An Error State"
            /\ ~statusErrorCheck[w].isNil
            /\ handed[w].available.message =
                   AggregateError(statusErrorCheck[w].FailingErrors)

\* C2 witness: two members, the second one failing, and the failing verdict
\* was handed over.
C2_Witness ==
    \E w \in Workers :
        /\ pc[w] = "done" /\ listed[w] /\ Len(poList[w]) = 2
        /\ ~HasFailing(<<poList[w][1]>>) /\ HasFailing(<<poList[w][2]>>)
        /\ handed[w].degraded.status = "True"
        /\ handed[w].available.message # ""

\* C3: a non-empty list without any failing condition ends with
\* Available=True and Degraded=False handed to UpdateStatus.
C3_HealthyVerdict ==
    \A w \in Workers :
        pc[w] = "done" /\ listed[w] /\ Len(poList[w]) > 0 /\ ~HasFailing(poList[w]) =>
            /\ updateCalls[w] = 1
            /\ handed[w].available.status = "True"
            /\ handed[w].degraded.status = "False"

\* C3 witness: a member without conditions next to one with a harmless
\* condition, and the healthy verdict was handed over.
C3_Witness ==
    \E w \in Workers :
        /\ pc[w] = "done" /\ listed[w] /\ Len(poList[w]) = 2
        /\ poList[w][1].conditions = <<>>
        /\ poList[w][2].conditions = <<"InstallSuccessful">>
        /\ handed[w].available.status = "True"

\* C4: an empty list ends with Available=True, reason "No POs Found",
\* Progressing and Degraded at their initial values, and the Inspector is
\* not run.
C4_EmptyFleet ==
    \A w \in Workers :
        pc[w] = "done" /\ listed[w] /\ Len(poList[w]) = 0 =>
            /\ updateCalls[w] = 1
            /\ handed[w].available.status = "True"
            /\ handed[w].available.reason = "No POs Found"
            /\ handed[w].progressing = InitialState.progressing
            /\ handed[w].degraded = InitialState.degraded
            /\ ~inspected[w]

\* C4 witness: an invocation that listed no members has finished.
C4_Witness ==
    \E w \in Workers :
        /\ pc[w] = "done" /\ listed[w] /\ poList[w] = <<>>
        /\ handed[w].available.reason = "No POs Found"

\* C5: when List fails, Reconcile returns the List error and the status
\* handed to the deferred UpdateStatus is exactly the Initial state.
C5_ListError ==
    \A w \in Workers :
        pc[w] = "done" /\ fetched[w] /\ ~listed[w] =>
            /\ retErr[w] = "ListErr"
            /\ updateCalls[w] = 1
            /\ handed[w] = InitialState
            /\ ~inspected[w]

\* C5 witness: List failed on a cluster that has a failing member, and the
\* Initial state was handed over.
C5_Witness ==
    \E w \in Workers :
        /\ pc[w] = "done" /\ retErr[w] = "ListErr" /\ HasFailing(members)
        /\ handed[w] = InitialState

\* The whole span of the previous invocation and of this one saw no change
\* of the members.
MembersUnchangedSincePrev(w) ==
    prev.valid /\ prev.startChanges = memberChanges /\ startChanges[w] = memberChanges

\* C6 (as stated): of two invocations in sequence over an unchanged member
\* set (each of which fetched the target), the second performs no write, and
\* the two together at most one.
C6_SecondInvocationNoWrite ==
    \A w \in SeqWorkers :
        pc[w] = "done" /\ MembersUnchangedSincePrev(w) /\ prev.fetched /\ fetched[w] =>
            storeWrites[w] = 0 /\ prev.storeWrites + storeWrites[w] <= 1

\* C6 (amended): of two invocations in sequence over an unchanged member
\* list, each of which fetched the target, in which List had the same outcome
\* (both listed the members, or both failed to) and the first of which did
\* not fail to write, the second performs no write, and the two together at
\* most one.
C6_SecondInvocationNoWriteAfterSuccess ==
    \A w \in SeqWorkers :
        /\ pc[w] = "done" /\ MembersUnchangedSincePrev(w)
        /\ prev.fetched /\ fetched[w]
        /\ prev.listed = listed[w] /\ ~prev.writeFailed
        => storeWrites[w] = 0 /\ prev.storeWrites + storeWrites[w] <= 1

\* C6 witness: the first invocation wrote the failing verdict, the second
\* one, over the same members, handed the same status over and wrote nothing.
C6_Witness ==
    \E w \in SeqWorkers :
        /\ pc[w] = "done" /\ MembersUnchangedSincePrev(w)
        /\ prev.listed /\ ~prev.writeFailed /\ prev.storeWrites = 1 /\ listed[w]
        /\ HasFailing(poList[w])
        /\ updateCalls[w] = 1 /\ handed[w] = persisted /\ storeWrites[w] = 0

IsEmptyFleetTerminal(st) ==
    /\ st.progressing.status = "True" /\ st.degraded.status = "False"
    /\ st.available.status = "True" /\ st.available.reason = "No POs Found"

IsFailingTerminal(st) ==
    /\ st.progressing.status = "True" /\ st.degraded.status = "True"
    /\ st.available.status = "False" /\ st.available.reason = "PO In An Error State"

IsHealthyTerminal(st) ==
    /\ st.progressing.status = "True" /\ st.degraded.status = "False"
    /\ st.available.status = "True" /\ st.available.reason = "POs Are Healthy"

ExactlyOneTerminal(st) ==
    Cardinality({t \in {"empty", "failing", "healthy"} :
                    \/ t = "empty" /\ IsEmptyFleetTerminal(st)
                    \/ t = "failing" /\ IsFailingTerminal(st)
                    \/ t = "healthy" /\ IsHealthyTerminal(st)}) = 1

\* C7 (as stated): the status written at the end of every invocation is
\* exactly one of the three terminal combinations.
C7_WrittenStatusIsTerminal ==
    \A w \in Workers :
        pc[w] = "done" /\ storeWrites[w] > 0 => ExactlyOneTerminal(handed[w])

\* C7 (amended): at the end of every invocation that listed the members, the
\* status handed to UpdateStatus is exactly one of the three terminal
\* combinations: empty-fleet for an empty list, failing for a list with a
\* failing condition, healthy otherwise.
C7_ListedStatusIsTerminal ==
    \A w \in Workers :
        pc[w] = "done" /\ listed[w] =>
            /\ updateCalls[w] = 1
            /\ ExactlyOneTerminal(handed[w])
            /\ IsEmptyFleetTerminal(handed[w]) <=> Len(poList[w]) = 0
            /\ IsFailingTerminal(handed[w]) <=> HasFailing(poList[w])

\* C7 witness: a healthy terminal was written to the store.
C7_Witness ==
    \E w \in Workers :
        /\ pc[w] = "done" /\ listed[w] /\ storeWrites[w] = 1 /\ ~writeFailed[w]
        /\ IsHealthyTerminal(handed[w]) /\ persisted = handed[w]

\* C8: inspectPlatformOperators returns nil exactly when no member of its
\* input has a condition with a failure reason (so for the empty list and
\* for members without conditions), and a report it returns never has both
\* lists empty.
C8_NilIffNoFailing ==
    inspectCalled =>
        /\ inspectOutput.isNil <=> ~HasFailing(inspectInput)
        /\ ~inspectOutput.isNil =>
               ~(inspectOutput.FailingPOs = <<>> /\ inspectOutput.FailingErrors = <<>>)

\* C8 witness: nil was returned for a member without conditions next to a
\* member whose conditions are all harmless.
C8_Witness ==
    /\ inspectCalled /\ inspectOutput.isNil /\ Len(inspectInput) = 2
    /\ inspectInput[1].conditions = <<>>
    /\ Len(inspectInput[2].conditions) = 2

\* Occurrences of x in the sequence q.
Count(q, x) == Cardinality({k \in 1..Len(q) : q[k] = x})

\* Number of conditions of member m that carry a failure reason.
NumFailing(m) ==
    Cardinality({k \in 1..Len(m.conditions) : m.conditions[k] \in FailureVocabulary})

\* C9 (as stated): a returned report holds each member that has a failing
\* condition exactly once in FailingPOs, however many of its conditions fail.
C9_OneEntryPerMember ==
    inspectCalled /\ ~inspectOutput.isNil =>
        \A i \in 1..Len(inspectInput) :
            Count(inspectOutput.FailingPOs, inspectInput[i]) =
                IF NumFailing(inspectInput[i]) > 0 THEN 1 ELSE 0

\* C9 (amended): a returned report holds each member in FailingPOs once per
\* failing condition of that member, and nothing else.
C9_OneEntryPerFailingCondition ==
    inspectCalled /\ ~inspectOutput.isNil =>
        /\ \A i \in 1..Len(inspectInput) :
              Count(inspectOutput.FailingPOs, inspectInput[i]) = NumFailing(inspectInput[i])
        /\ \A k \in 1..Len(inspectOutput.FailingPOs) :
              \E i \in 1..Len(inspectInput) : inspectOutput.FailingPOs[k] = inspectInput[i]

\* C9 witness: a member with two failing conditions was reported twice.
C9_Witness ==
    /\ inspectCalled /\ ~inspectOutput.isNil
    /\ \E i \in 1..Len(inspectInput) :
          NumFailing(inspectInput[i]) = 2
          /\ Count(inspectOutput.FailingPOs, inspectInput[i]) = 2

\* The line the combined message holds for one failing condition.
ClaimedLine(name, reason) == name \o " is failing: \"" \o reason \o "\""

\* The lines of the failing conditions of the list, in list order and, within
\* a member, in the order of its conditions.
RECURSIVE LinesOfMember(_, _)
LinesOfMember(m, k) ==
    IF k > Len(m.conditions) THEN <<>>
    ELSE (IF m.conditions[k] \in FailureVocabulary
          THEN <<ClaimedLine(m.name, m.conditions[k])>> ELSE <<>>)
         \o LinesOfMember(m, k + 1)

RECURSIVE LinesOfList(_, _)
LinesOfList(items, i) ==
    IF i > Len(items) THEN <<>>
    ELSE LinesOfMember(items[i], 1) \o LinesOfList(items, i + 1)

\* The lines with every repeated line dropped after its first occurrence.
DistinctLines(lines) ==
    LET keep == {k \in 1..Len(lines) : \A j \in 1..(k - 1) : lines[j] # lines[k]}
        RECURSIVE pick(_)
        pick(k) == IF k > Len(lines) THEN <<>>
                   ELSE (IF k \in keep THEN <<lines[k]>> ELSE <<>>) \o pick(k + 1)
    IN pick(1)

RECURSIVE CommaJoin(_)
CommaJoin(lines) ==
    IF Len(lines) = 0 THEN ""
    ELSE IF Len(lines) = 1 THEN lines[1]
    ELSE lines[1] \o ", " \o CommaJoin(Tail(lines))

\* One line prints as itself, several as a bracketed, comma-separated list.
Combined(lines) ==
    IF Len(lines) = 1 THEN lines[1] ELSE "[" \o CommaJoin(lines) \o "]"

\* C10 (as stated): the combined message of the Available slot holds one
\* line per failing condition of the list, each "<name> is failing: <reason>"
\* (the reason in double quotes, as %q prints it).
C10_OneLinePerCondition ==
    \A w \in Workers :
        pc[w] = "done" /\ listed[w] /\ HasFailing(poList[w]) =>
            handed[w].available.message = Combined(LinesOfList(poList[w], 1))

\* C10 (amended): the combined message of the Available slot holds one line
\* per distinct pair of member and failure reason among the failing
\* conditions of the list: conditions of one member that repeat a reason
\* share one line.
C10_OneLinePerDistinctCondition ==
    \A w \in Workers :
        pc[w] = "done" /\ listed[w] /\ HasFailing(poList[w]) =>
            handed[w].available.message =
                Combined(DistinctLines(LinesOfList(poList[w], 1)))

\* C10 witness: a member with two different failing conditions contributed
\* two lines.
C10_Witness ==
    \E w \in Workers :
        /\ pc[w] = "done" /\ listed[w]
        /\ poList[w] = <<[name |-> "a", conditions |-> <<"SourceFailed", "ApplyFailed">>]>>
        /\ handed[w].available.message =
              "[a is failing: \"SourceFailed\", a is failing: \"ApplyFailed\"]"

\* The members of the list, each repeated once per failing condition, in
\* list order.
RECURSIVE FailingMembersOfList(_, _)
FailingMembersOfList(items, i) ==
    IF i > Len(items) THEN <<>>
    ELSE [k \in 1..Len(LinesOfMember(items[i], 1)) |-> items[i]]
         \o FailingMembersOfList(items, i + 1)

\* C11: the messages of the report and of the combined message stand in
\* traversal order: members in list order and, within a member, its failing
\* conditions in the order of its condition sequence.
C11_TraversalOrder ==
    \A w \in Workers :
        pc[w] = "done" /\ listed[w] /\ HasFailing(poList[w]) =>
            /\ statusErrorCheck[w].FailingErrors = LinesOfList(poList[w], 1)
            /\ statusErrorCheck[w].FailingPOs = FailingMembersOfList(poList[w], 1)
            /\ handed[w].available.message =
                   Combined(DistinctLines(statusErrorCheck[w].FailingErrors))

\* C11 witness: member b is listed before member a and ApplyFailed stands
\* before SourceFailed in its conditions; the message keeps that order.
C11_Witness ==
    \E w \in Workers :
        /\ pc[w] = "done" /\ listed[w]
        /\ poList[w] = <<[name |-> "b", conditions |-> <<"ApplyFailed", "SourceFailed">>],
                         [name |-> "a", conditions |-> <<"SourceFailed">>]>>
        /\ handed[w].available.message =
              "[b is failing: \"ApplyFailed\", b is failing: \"SourceFailed\", "
              \o "a is failing: \"SourceFailed\"]"

\* C12: a failing status write is logged only: the error Reconcile returns
\* is the one its return statement chose, the write is not tried again, and
\* UpdateStatus is called at most once in an invocation.
C12_WriteFailureOnlyLogged ==
    \A w \in Workers :
        /\ updateCalls[w] <= 1
        /\ storeWrites[w] <= 1
        /\ pc[w] = "done" /\ writeFailed[w] =>
               /\ updateCalls[w] = 1
               /\ storeWrites[w] = 1
               /\ retErr[w] = IF listed[w] THEN "nil" ELSE "ListErr"

\* C12 witness: the write of a failing verdict failed and Reconcile still
\* returned nil.
C12_Witness ==
    \E w \in Workers :
        /\ pc[w] = "done" /\ writeFailed[w] /\ listed[w] /\ HasFailing(poList[w])
        /\ retErr[w] = "nil" /\ persisted # handed[w]

\* C13: after a successful List, Reconcile returns a nil error on the
\* empty-fleet, failing and healthy paths alike; a failing member shows in
\* the status only.
C13_MemberFailureIsNoError ==
    \A w \in Workers :
        pc[w] = "done" /\ listed[w] =>
            /\ retErr[w] = "nil"
            /\ HasFailing(poList[w]) => handed[w].degraded.status = "True"

\* C13 witness: two failing members, Degraded=True handed over, nil returned.
C13_Witness ==
    \E w \in Workers :
        /\ pc[w] = "done" /\ listed[w] /\ Len(poList[w]) = 2
        /\ HasFailing(<<poList[w][1]>>) /\ HasFailing(<<poList[w][2]>>)
        /\ retErr[w] = "nil" /\ handed[w].degraded.status = "True"

\* The status the verdict for a member list amounts to.
ExpectedStatus(items) ==
    [progressing |-> Cond("True", "", ""),
     degraded |-> Cond(IF HasFailing(items) THEN "True" ELSE "False", "", ""),
     available |->
        IF Len(items) = 0 THEN Cond("True", "", "No POs Found")
        ELSE IF HasFailing(items)
        THEN Cond("False", Combined(DistinctLines(LinesOfList(items, 1))),
                  "PO In An Error State")
        ELSE Cond("True", "All POs in a successful state", "POs Are Healthy")]

\* The store holds the verdict for the members and no invocation has written.
Converged ==
    /\ persisted = ExpectedStatus(members)
    /\ \A w \in Workers : storeWrites[w] = 0

ListNeverFailed == \A w \in Workers : retErr[w] # "ListErr"

\* C14 (as stated): once the members stop changing, with invocations kept
\* going and status writes eventually succeeding, the persisted status
\* eventually equals the verdict for the members and stays so, with no
\* further write.
C14_Converges == <>[]Converged

\* C14 (amended): the same, provided List from some point on no longer fails.
C14_ConvergesOnceListSucceeds == <>[]ListNeverFailed => <>[]Converged

\* C14 witness: after a change of the members and a failed write, a later
\* invocation has brought the store to the failing verdict.
C14_Witness ==
    /\ memberChanges > 0 /\ HasFailing(members)
    /\ prev.valid /\ prev.writeFailed
    /\ \E w \in SeqWorkers : pc[w] = "done" /\ storeWrites[w] = 1 /\ ~writeFailed[w]
    /\ persisted = ExpectedStatus(members)

\* Both invocations have returned.
BothComplete == \A w \in Workers : pc[w] = "done"

\* The store holds a whole status: nothing yet, the defaults, or the verdict
\* for the members; never slots of different ones.
WholeStatus == persisted \in {NewBuilder, InitialState, ExpectedStatus(members)}

\* C15 (as stated): for any interleaving of two invocations over the same
\* members, with every status update applied atomically (and none failing,
\* both having fetched the target, one at least having computed the
\* verdict), the persisted status after both have completed is the verdict
\* for the members, and never a mixture.
C15_OverlapGivesVerdict ==
    /\ WholeStatus
    /\ (BothComplete
        /\ (\A w \in Workers : fetched[w] /\ ~writeFailed[w])
        /\ (\E w \in Workers : listed[w]))
          => persisted = ExpectedStatus(members)

\* C15 (amended): the same, provided both invocations listed the members.
C15_OverlapGivesVerdictWhenListed ==
    /\ WholeStatus
    /\ (BothComplete
        /\ (\A w \in Workers : fetched[w] /\ listed[w] /\ ~writeFailed[w]))
          => persisted = ExpectedStatus(members)

\* C15 witness: both invocations fetched the target before either wrote,
\* both wrote the failing verdict, and both have completed.
C15_Witness ==
    /\ BothComplete /\ HasFailing(members)
    /\ \A w \in Workers :
          /\ fetched[w] /\ listed[w] /\ ~writeFailed[w]
          /\ storeWrites[w] = 1 /\ aggregatedCO[w] = NewBuilder
    /\ persisted = ExpectedStatus(members)

\* C16: a step of an invocation (Get, the body with List and the Inspector,
\* the deferred UpdateStatus, the return) leaves the member list and every
\* member's conditions as they were, and the list the Inspector went
\* through is still what List returned; only the cluster changes members.
C16_MembersReadOnly ==
    [][(pc' # pc) =>
          /\ members' = members
          /\ \A w \in Workers :
                (listed'[w] /\ ~listed[w]) => poList'[w] = members]_vars

\* C16 witness: after the cluster changed the members, an invocation has
\* inspected a list with a failing member, written the verdict and left
\* the members as listed.
C16_Witness ==
    /\ memberChanges > 0
    /\ \E w \in Workers :
          /\ pc[w] = "done" /\ inspected[w] /\ storeWrites[w] = 1
          /\ ~statusErrorCheck[w].isNil
          /\ poList[w] = members

\* C17: when the Get of the target fails, the invocation ends there: the
\* store is not touched by that step, UpdateStatus is never called, nothing
\* is written, and the error returned is nil for not-found and the Get
\* error otherwise.
C17_GetFailureReturnsEarly ==
    [][\A w \in Workers :
       /\ (pc[w] = "idle" /\ pc'[w] # "idle" /\ ~fetched'[w]) =>
              /\ pc'[w] = "done"
              /\ persisted' = persisted
              /\ updateCalls'[w] = 0 /\ storeWrites'[w] = 0
              /\ retErr'[w] = IF getResult'[w] = "notfound" THEN "nil" ELSE "GetErr"
       /\ (pc[w] = "done" /\ ~fetched[w] /\ pc'[w] # "done") =>
              /\ pc'[w] = "idle"
              /\ persisted' = persisted
              /\ updateCalls[w] = 0 /\ storeWrites[w] = 0]_vars

\* C17 witness: with a status in the store, an invocation whose Get found
\* no target has returned nil without a call of UpdateStatus, right after
\* another one whose Get had failed as well.
C17_Witness ==
    /\ persisted # NewBuilder
    /\ prev.valid /\ ~prev.fetched
    /\ \E w \in Workers :
          /\ pc[w] = "done" /\ ~fetched[w] /\ getResult[w] = "notfound"
          /\ retErr[w] = "nil" /\ updateCalls[w] = 0

\* The (Progressing, Degraded, Available) statuses of a status object.
Combination(st) == <<st.progressing.status, st.degraded.status, st.available.status>>

\* Initial, empty-fleet and healthy, failing.
AllowedCombinations ==
    {<<"True", "False", "False">>, <<"True", "False", "True">>,
     <<"True", "True", "False">>}

\* C18: every status handed to UpdateStatus is Initial (True, False, False),
\* empty-fleet or healthy (True, False, True), or failing (True, True,
\* False): Progressing is True in each and no slot is unset.
C18_HandedCombinations ==
    \A w \in Workers :
        updateCalls[w] > 0 =>
            /\ Combination(handed[w]) \in AllowedCombinations
            /\ \/ handed[w] = InitialState
               \/ IsEmptyFleetTerminal(handed[w])
               \/ IsFailingTerminal(handed[w])
               \/ IsHealthyTerminal(handed[w])
            /\ handed[w].progressing.status = "True"
            /\ handed[w].progressing # NoCondition
            /\ handed[w].degraded # NoCondition
            /\ handed[w].available # NoCondition

\* C18 witness: a second invocation in a row hands a status to
\* UpdateStatus, this one the failing one.
C18_Witness ==
    /\ prev.valid /\ prev.fetched
    /\ \E w \in Workers :
          /\ updateCalls[w] = 1
          /\ Combination(handed[w]) = <<"True", "True", "False">>

\* Number of failing conditions of the members of the list from i on.
RECURSIVE TotalFailing(_, _)
TotalFailing(items, i) ==
    IF i > Len(items) THEN 0
    ELSE NumFailing(items[i]) + TotalFailing(items, i + 1)

\* C19: in a report inspectPlatformOperators returns, FailingPOs and
\* FailingErrors are equally long, as long as there are conditions with
\* reason SourceFailed or ApplyFailed over all members, and entry i of
\* FailingErrors names the member at entry i of FailingPOs (with a failure
\* reason that member carries); nil is returned only when that number is 0.
C19_ParallelLists ==
    inspectCalled =>
        IF inspectOutput.isNil THEN TotalFailing(inspectInput, 1) = 0
        ELSE /\ Len(inspectOutput.FailingPOs) = TotalFailing(inspectInput, 1)
             /\ Len(inspectOutput.FailingErrors) = TotalFailing(inspectInput, 1)
             /\ \A i \in 1..Len(inspectOutput.FailingErrors) :
                   \E r \in FailureVocabulary :
                      /\ \E k \in 1..Len(inspectOutput.FailingPOs[i].conditions) :
                            inspectOutput.FailingPOs[i].conditions[k] = r
                      /\ inspectOutput.FailingErrors[i] =
                            ClaimedLine(inspectOutput.FailingPOs[i].name, r)

\* C19 witness: two members, one with a failing condition among harmless
\* ones and one with two failing conditions, give three parallel entries.
C19_Witness ==
    /\ inspectCalled /\ ~inspectOutput.isNil
    /\ Len(inspectInput) = 2
    /\ NumFailing(inspectInput[1]) = 1 /\ Len(inspectInput[1].conditions) = 2
    /\ NumFailing(inspectInput[2]) = 2
    /\ Len(inspectOutput.FailingPOs) = 3 /\ Len(inspectOutput.FailingErrors) = 3
    /\ inspectOutput.FailingPOs[1] = inspectInput[1]
    /\ inspectOutput.FailingPOs[3] = inspectInput[2]

====
